---- MODULE Spec2Model ----
(***************************************************************************)
(* Model of the r2iac core engine (crates/core/src/lib.rs): plan_all       *)
(* builds a dependency graph over the resource handles, orders it with     *)
(* petgraph's toposort and walks the order calling read and plan on each   *)
(* resource; apply_all walks a plan calling apply.  The resources' own     *)
(* read/plan/apply are trait methods implemented outside the core: they    *)
(* are the environment, and return any value of their result type.         *)
(***************************************************************************)
EXTENDS Naturals, Sequences, FiniteSets

\* ---------------------------------------------------------------- bounds
MaxRes == 3
NumIds == 3
\* dependencies a handle declares, where resource state or a plan is enumerated too
MaxDeclared == 1

\* pairs of a plan the caller writes itself
MaxPlan == 2

\* ---------------------------------------------------------------- helpers
Range(s) == {s[i] : i \in 1..Len(s)}

Last(s) == s[Len(s)]

Front(s) == SubSeq(s, 1, Len(s) - 1)

RECURSIVE Reverse(_)
Reverse(s) == IF s = <<>> THEN <<>> ELSE Append(Reverse(Tail(s)), Head(s))

SetMin(S) == CHOOSE x \in S : \A y \in S : x <= y

SetMax(S) == CHOOSE x \in S : \A y \in S : y <= x

\* ---------------------------------------------------------------- data
\* ResourceId: a string in the code; a number here, ordered as the strings are.
ResourceId == 1..NumIds

\* A handle as the engine sees it: id() and deps().
Resource == [id : ResourceId, deps : SUBSET ResourceId]

Desired == {"d1"}

Current == {"c1"}

None == "None"

\* Option<Current>
OptCurrent == Current \cup {None}

Op == [tag : {"Create"}, to : Desired]
        \cup [tag : {"Update"}, from : Current, to : Desired]
        \cup [tag : {"Delete"}, from : Current]
        \cup {[tag |-> "Noop"]}

\* the failures a resource's read, plan or apply may return (anyhow::Error)
ResourceError == {"e1", "e2"}

\* EngineError::Cycle
Cycle == "Cycle"

\* ---------------------------------------------------------------- graph
\* BTreeSet iteration: ascending order.
RECURSIVE BTreeIter(_)
BTreeIter(S) == IF S = {} THEN <<>>
                ELSE LET m == SetMin(S) IN <<m>> \o BTreeIter(S \ {m})

\* id_to_ix after the first loop: a later insert of the same id overwrites.
IdToIx(rs) == [x \in {rs[i].id : i \in 1..Len(rs)} |->
                 SetMax({i \in 1..Len(rs) : rs[i].id = x})]

\* mutant: add_edge(to_ix, from_ix), the edge drawn the wrong way round
RECURSIVE DepEdgesSwapped(_, _, _)
DepEdgesSwapped(rs, i, ds) ==
    IF ds = <<>> THEN <<>>
    ELSE LET m    == IdToIx(rs)
             rest == DepEdgesSwapped(rs, i, Tail(ds))
         IN  IF Head(ds) \in DOMAIN m
             THEN <<[from |-> m[rs[i].id], to |-> m[Head(ds)]]>> \o rest
             ELSE rest

\* mutant: an unknown dependency falls back to the first node instead of
\* being skipped
RECURSIVE DepEdgesUnknownFirst(_, _, _)
DepEdgesUnknownFirst(rs, i, ds) ==
    IF ds = <<>> THEN <<>>
    ELSE LET m    == IdToIx(rs)
             rest == DepEdgesUnknownFirst(rs, i, Tail(ds))
         IN  IF Head(ds) \in DOMAIN m
             THEN <<[from |-> m[Head(ds)], to |-> m[rs[i].id]]>> \o rest
             ELSE <<[from |-> 1, to |-> m[rs[i].id]]>> \o rest

\* the edges the inner loop adds for one dependency sequence of resource i
RECURSIVE DepEdges(_, _, _)
DepEdges(rs, i, ds) ==
    IF ds = <<>> THEN <<>>
    ELSE LET m    == IdToIx(rs)
             rest == DepEdges(rs, i, Tail(ds))
         IN  IF Head(ds) \in DOMAIN m
             THEN <<[from |-> m[Head(ds)], to |-> m[rs[i].id]]>> \o rest
             ELSE rest

\* the edges in the order add_edge is called, resources 1..i
RECURSIVE EdgesUpTo(_, _)
EdgesUpTo(rs, i) ==
    IF i = 0 THEN <<>>
    ELSE EdgesUpTo(rs, i - 1) \o DepEdges(rs, i, BTreeIter(rs[i].deps))

\* the DiGraph: node i carries resource i's id; edges in insertion order
BuildGraph(rs) == [n      |-> Len(rs),
                   weight |-> [i \in 1..Len(rs) |-> rs[i].id],
                   edges  |-> EdgesUpTo(rs, Len(rs))]

\* petgraph Graph::neighbors: targets of the outgoing edges, most recently
\* added edge first.
RECURSIVE NeighborsFrom(_, _, _)
NeighborsFrom(g, nx, e) ==
    IF e = 0 THEN <<>>
    ELSE IF g.edges[e].from = nx
         THEN <<g.edges[e].to>> \o NeighborsFrom(g, nx, e - 1)
         ELSE NeighborsFrom(g, nx, e - 1)

Neighbors(g, nx) == NeighborsFrom(g, nx, Len(g.edges))

\* neighbors in Reversed(g): sources of the incoming edges
Predecessors(g, nx) == {g.edges[e].from : e \in {x \in 1..Len(g.edges) : g.edges[x].to = nx}}

\* push the successors not yet discovered, in iteration order
RECURSIVE PushUndiscovered(_, _, _)
PushUndiscovered(stack, succs, disc) ==
    IF succs = <<>> THEN stack
    ELSE PushUndiscovered(IF Head(succs) \in disc THEN stack ELSE Append(stack, Head(succs)),
                          Tail(succs), disc)

\* mutant: the self-loop test of the first pass left out
RECURSIVE DfsRunNoSelfLoop(_, _)
DfsRunNoSelfLoop(g, st) ==
    IF st.err \/ st.stack = <<>> THEN st
    ELSE LET nx == Last(st.stack) IN
         IF nx \notin st.disc
         THEN LET succs == Neighbors(g, nx)
                  disc  == st.disc \cup {nx}
              IN  DfsRunNoSelfLoop(g, [st EXCEPT !.disc = disc,
                                        !.stack = PushUndiscovered(st.stack, succs, disc)])
         ELSE IF nx \notin st.fin
              THEN DfsRunNoSelfLoop(g, [st EXCEPT !.stack = Front(st.stack),
                                                  !.fin = st.fin \cup {nx},
                                                  !.fs = Append(st.fs, nx)])
              ELSE DfsRunNoSelfLoop(g, [st EXCEPT !.stack = Front(st.stack)])

\* toposort, first pass: the inner while loop over dfs.stack
RECURSIVE DfsRun(_, _)
DfsRun(g, st) ==
    IF st.err \/ st.stack = <<>> THEN st
    ELSE LET nx == Last(st.stack) IN
         IF nx \notin st.disc
         THEN LET succs == Neighbors(g, nx)
                  disc  == st.disc \cup {nx}
              IN  IF nx \in Range(succs)
                  THEN [st EXCEPT !.err = TRUE]
                  ELSE DfsRun(g, [st EXCEPT !.disc = disc,
                                            !.stack = PushUndiscovered(st.stack, succs, disc)])
         ELSE IF nx \notin st.fin
              THEN DfsRun(g, [st EXCEPT !.stack = Front(st.stack),
                                        !.fin = st.fin \cup {nx},
                                        !.fs = Append(st.fs, nx)])
              ELSE DfsRun(g, [st EXCEPT !.stack = Front(st.stack)])

\* mutant: the roots taken first to last, without .rev()
RECURSIVE DfsRootsForward(_, _, _)
DfsRootsForward(g, i, st) ==
    IF st.err \/ i = 0 THEN st
    ELSE LET nx == g.n - i + 1 IN
         IF nx \in st.disc THEN DfsRootsForward(g, i - 1, st)
         ELSE DfsRootsForward(g, i - 1, DfsRun(g, [st EXCEPT !.stack = <<nx>>]))

\* toposort, first pass: the for loop over node_identifiers().rev()
RECURSIVE DfsRoots(_, _, _)
DfsRoots(g, i, st) ==
    IF st.err \/ i = 0 THEN st
    ELSE IF i \in st.disc THEN DfsRoots(g, i - 1, st)
         ELSE DfsRoots(g, i - 1, DfsRun(g, [st EXCEPT !.stack = <<i>>]))

\* mutant: the second pass left out, no cycle is ever reported by it
CycleCheckSkipped(g, ord, idx, disc) == TRUE

\* toposort, second pass: walking the order, a node with a predecessor not
\* yet discovered closes a cycle
RECURSIVE CycleCheck(_, _, _, _)
CycleCheck(g, ord, idx, disc) ==
    IF idx > Len(ord) THEN TRUE
    ELSE LET i == ord[idx] IN
         IF Predecessors(g, i) \ (disc \cup {i}) # {} THEN FALSE
         ELSE CycleCheck(g, ord, idx + 1, disc \cup {i})

\* mutant: finish_stack returned without finish_stack.reverse()
toposortUnreversed(g) ==
    LET st  == DfsRoots(g, g.n, [stack |-> <<>>, disc |-> {}, fin |-> {},
                                 fs |-> <<>>, err |-> FALSE])
        ord == Reverse(st.fs)
    IN  IF st.err THEN [ok |-> FALSE, order |-> <<>>]
        ELSE IF CycleCheck(g, ord, 1, {}) THEN [ok |-> TRUE, order |-> st.fs]
        ELSE [ok |-> FALSE, order |-> <<>>]

\* petgraph::algo::toposort(&g, None)
toposort(g) ==
    LET st  == DfsRoots(g, g.n, [stack |-> <<>>, disc |-> {}, fin |-> {},
                                 fs |-> <<>>, err |-> FALSE])
        ord == Reverse(st.fs)
    IN  IF st.err THEN [ok |-> FALSE, order |-> <<>>]
        ELSE IF CycleCheck(g, ord, 1, {}) THEN [ok |-> TRUE, order |-> ord]
        ELSE [ok |-> FALSE, order |-> <<>>]

\* mutant: the handle is taken from id_to_ix, the last one inserted for the id
FindLast(rs, id) == SetMax({i \in 1..Len(rs) : rs[i].id = id})

\* resources.iter().find(|x| x.id().0 == id): the first handle with that id
Find(rs, id) == SetMin({i \in 1..Len(rs) : rs[i].id = id})

\* ---------------------------------------------------------------- results
Unit == [tag |-> "unit"]

Pending == [tag |-> "pending"]

Opt(v) == [tag |-> "opt", v |-> v]

\* a failure as the callee returned it
Failed(e) == [tag |-> "err", e |-> e]

\* anyhow::Result of plan_all / apply_all; context is what the engine itself
\* attaches to the error it propagates (the `?` operator attaches nothing)
NoResult == [tag |-> "none"]

OkPlan(p) == [tag |-> "Ok", plan |-> p]

OkUnit == [tag |-> "Ok"]

ErrResult(e) == [tag |-> "Err", e |-> e, context |-> <<>>]

\* ---------------------------------------------------------------- state
VARIABLES
    resources,    \* the caller's collection of handles: <<[id, deps], ...>>
    pc,           \* where the run stands
    order,        \* ordered_ix, the node indexes toposort returned
    k,            \* position of the running for loop (in order, or in plan)
    cur,          \* cur, the value read returned, held until plan is called
    out,          \* out, the pairs plan_all has pushed so far
    planResult,   \* what plan_all returned
    plan,         \* the plan apply_all was called with
    applyResult,  \* what apply_all returned
    calls         \* every read/plan/apply call made on a handle, in order

vars == <<resources, pc, order, k, cur, out, planResult, plan, applyResult, calls>>

\* a ResourceId is unique within a run
UniqueIds(rs) == \A i, j \in 1..Len(rs) : rs[i].id = rs[j].id => i = j

\* the caller hands over a collection of 0..MaxRes handles
Init ==
    /\ \E n \in 0..MaxRes :
          /\ resources \in [1..n -> Resource]
          /\ UniqueIds(resources)
    /\ pc = "idle"
    /\ order = <<>>
    /\ k = 0
    /\ cur = None
    /\ out = <<>>
    /\ planResult = NoResult
    /\ plan = <<>>
    /\ applyResult = NoResult
    /\ calls = <<>>

\* the call in flight, when there is one, is the last entry of calls
Call(fn, h, arg) == [fn |-> fn, h |-> h, arg |-> arg, ret |-> Pending]

Returned(cs, ret) == [cs EXCEPT ![Len(cs)].ret = ret]

\* ---------------------------------------------------------------- plan_all
\* lines 35-52: build the graph, sort it, fail on a cycle
PlanAllStart ==
    /\ pc = "idle"
    /\ LET g == BuildGraph(resources)
           r == toposort(g)
       IN  IF ~r.ok
           THEN /\ planResult' = ErrResult(Cycle)
                /\ pc' = "plan_failed"
                /\ UNCHANGED <<order, k>>
           ELSE IF r.order = <<>>
           THEN /\ planResult' = OkPlan(<<>>)
                /\ pc' = "planned"
                /\ UNCHANGED <<order, k>>
           ELSE /\ order' = r.order
                /\ k' = 1
                /\ pc' = "plan_read"
                /\ UNCHANGED planResult
    /\ UNCHANGED <<resources, cur, out, plan, applyResult, calls>>

\* mutant: the handle is looked up by the loop position, not by the node's id
ReadCallByPosition ==
    /\ pc = "plan_read"
    /\ calls' = Append(calls, Call("read", k, Unit))
    /\ pc' = "plan_read_wait"
    /\ UNCHANGED <<resources, order, k, cur, out, planResult, plan, applyResult>>

\* mutant: the next resource's read is started while this one is in flight
ReadCallPrefetch ==
    /\ pc = "plan_read"
    /\ LET w  == BuildGraph(resources).weight
           r  == Find(resources, w[order[k]])
           c1 == Append(calls, Call("read", r, Unit))
       IN  calls' = IF k < Len(order)
                    THEN Append(c1, Call("read", Find(resources, w[order[k + 1]]), Unit))
                    ELSE c1
    /\ pc' = "plan_read_wait"
    /\ UNCHANGED <<resources, order, k, cur, out, planResult, plan, applyResult>>

\* lines 56-58: look the handle up by the node's id and call read on it
ReadCall ==
    /\ pc = "plan_read"
    /\ LET id == BuildGraph(resources).weight[order[k]]
           r  == Find(resources, id)
       IN  calls' = Append(calls, Call("read", r, Unit))
    /\ pc' = "plan_read_wait"
    /\ UNCHANGED <<resources, order, k, cur, out, planResult, plan, applyResult>>

\* mutant: a failed read is tried again
ReadReturnRetry ==
    /\ pc = "plan_read_wait"
    /\ \/ \E v \in OptCurrent :
             /\ calls' = Returned(calls, Opt(v))
             /\ cur' = v
             /\ pc' = "plan_plan"
             /\ UNCHANGED <<out, planResult>>
       \/ \E e \in ResourceError :
             /\ calls' = Returned(calls, Failed(e))
             /\ pc' = IF Len(calls) < 2 * Len(order) THEN "plan_read" ELSE "plan_failed"
             /\ planResult' = IF Len(calls) < 2 * Len(order) THEN planResult ELSE ErrResult(e)
             /\ UNCHANGED <<cur, out>>
    /\ UNCHANGED <<resources, order, k, plan, applyResult>>

\* mutant: a failed read is taken for "nothing observed" and planning goes on
ReadReturnSwallow ==
    /\ pc = "plan_read_wait"
    /\ \/ \E v \in OptCurrent :
             /\ calls' = Returned(calls, Opt(v))
             /\ cur' = v
             /\ pc' = "plan_plan"
             /\ UNCHANGED <<out, planResult>>
       \/ \E e \in ResourceError :
             /\ calls' = Returned(calls, Failed(e))
             /\ cur' = None
             /\ pc' = "plan_plan"
             /\ UNCHANGED <<out, planResult>>
    /\ UNCHANGED <<resources, order, k, plan, applyResult>>

\* line 58: read().await? returns Ok(cur) or the failure, which `?` returns;
\* vals are the values the resource may answer with
ReadReturnWith(vals) ==
    /\ pc = "plan_read_wait"
    /\ \/ \E v \in vals :
             /\ calls' = Returned(calls, Opt(v))
             /\ cur' = v
             /\ pc' = "plan_plan"
             /\ UNCHANGED <<out, planResult>>
       \/ \E e \in ResourceError :
             /\ calls' = Returned(calls, Failed(e))
             /\ planResult' = ErrResult(e)
             /\ out' = <<>>
             /\ pc' = "plan_failed"
             /\ UNCHANGED cur
    /\ UNCHANGED <<resources, order, k, plan, applyResult>>

\* read of a resource about which nothing is assumed: any Option<Current>
ReadReturn == ReadReturnWith(OptCurrent)

\* mutant: plan is called with None instead of the value read returned
PlanCallNoCur ==
    /\ pc = "plan_plan"
    /\ LET id == BuildGraph(resources).weight[order[k]]
           r  == Find(resources, id)
       IN  calls' = Append(calls, Call("plan", r, Opt(None)))
    /\ pc' = "plan_plan_wait"
    /\ UNCHANGED <<resources, order, k, cur, out, planResult, plan, applyResult>>

\* line 59: call plan with the value read returned
PlanCall ==
    /\ pc = "plan_plan"
    /\ LET id == BuildGraph(resources).weight[order[k]]
           r  == Find(resources, id)
       IN  calls' = Append(calls, Call("plan", r, Opt(cur)))
    /\ pc' = "plan_plan_wait"
    /\ UNCHANGED <<resources, order, k, cur, out, planResult, plan, applyResult>>

\* mutant: the pair is labelled with the id of node k, not of node order[k]
PlanReturnIndexId(ops) ==
    /\ pc = "plan_plan_wait"
    /\ \/ \E op \in ops :
             LET id   == BuildGraph(resources).weight[k]
                 out1 == Append(out, [id |-> id, op |-> op])
             IN  /\ calls' = Returned(calls, op)
                 /\ out' = out1
                 /\ IF k = Len(order)
                    THEN /\ planResult' = OkPlan(out1)
                         /\ pc' = "planned"
                         /\ UNCHANGED k
                    ELSE /\ k' = k + 1
                         /\ pc' = "plan_read"
                         /\ UNCHANGED planResult
       \/ \E e \in ResourceError :
             /\ calls' = Returned(calls, Failed(e))
             /\ planResult' = ErrResult(e)
             /\ out' = <<>>
             /\ pc' = "plan_failed"
             /\ UNCHANGED k
    /\ cur' = None
    /\ UNCHANGED <<resources, order, plan, applyResult>>

\* mutant: a resource with nothing to do is left out of the plan
PlanReturnDropNoop(ops) ==
    /\ pc = "plan_plan_wait"
    /\ \/ \E op \in ops :
             LET id   == BuildGraph(resources).weight[order[k]]
                 out1 == IF op.tag = "Noop" THEN out ELSE Append(out, [id |-> id, op |-> op])
             IN  /\ calls' = Returned(calls, op)
                 /\ out' = out1
                 /\ IF k = Len(order)
                    THEN /\ planResult' = OkPlan(out1)
                         /\ pc' = "planned"
                         /\ UNCHANGED k
                    ELSE /\ k' = k + 1
                         /\ pc' = "plan_read"
                         /\ UNCHANGED planResult
       \/ \E e \in ResourceError :
             /\ calls' = Returned(calls, Failed(e))
             /\ planResult' = ErrResult(e)
             /\ out' = <<>>
             /\ pc' = "plan_failed"
             /\ UNCHANGED k
    /\ cur' = None
    /\ UNCHANGED <<resources, order, plan, applyResult>>

\* mutant: a failed plan call ends planning with the pairs gathered so far
PlanReturnPartial(ops) ==
    /\ pc = "plan_plan_wait"
    /\ \/ \E op \in ops :
             LET id   == BuildGraph(resources).weight[order[k]]
                 out1 == Append(out, [id |-> id, op |-> op])
             IN  /\ calls' = Returned(calls, op)
                 /\ out' = out1
                 /\ IF k = Len(order)
                    THEN /\ planResult' = OkPlan(out1)
                         /\ pc' = "planned"
                         /\ UNCHANGED k
                    ELSE /\ k' = k + 1
                         /\ pc' = "plan_read"
                         /\ UNCHANGED planResult
       \/ \E e \in ResourceError :
             /\ calls' = Returned(calls, Failed(e))
             /\ planResult' = OkPlan(out)
             /\ out' = out
             /\ pc' = "planned"
             /\ UNCHANGED k
    /\ cur' = None
    /\ UNCHANGED <<resources, order, plan, applyResult>>

\* mutant: the operation a resource plans is applied to it straight away
PlanReturnEager(ops) ==
    /\ pc = "plan_plan_wait"
    /\ \/ \E op \in ops :
             LET id   == BuildGraph(resources).weight[order[k]]
                 out1 == Append(out, [id |-> id, op |-> op])
                 done == Returned(calls, op)
             IN  /\ calls' = Append(done, [Call("apply", Last(calls).h, op) EXCEPT !.ret = Unit])
                 /\ out' = out1
                 /\ IF k = Len(order)
                    THEN /\ planResult' = OkPlan(out1)
                         /\ pc' = "planned"
                         /\ UNCHANGED k
                    ELSE /\ k' = k + 1
                         /\ pc' = "plan_read"
                         /\ UNCHANGED planResult
       \/ \E e \in ResourceError :
             /\ calls' = Returned(calls, Failed(e))
             /\ planResult' = ErrResult(e)
             /\ out' = <<>>
             /\ pc' = "plan_failed"
             /\ UNCHANGED k
    /\ cur' = None
    /\ UNCHANGED <<resources, order, plan, applyResult>>

\* lines 59-62: plan().await? returns Ok(op), pushed with the id; after the
\* last node plan_all returns Ok(out); ops are the operations the resource
\* may answer with
PlanReturnWith(ops) ==
    /\ pc = "plan_plan_wait"
    /\ \/ \E op \in ops :
             LET id   == BuildGraph(resources).weight[order[k]]
                 out1 == Append(out, [id |-> id, op |-> op])
             IN  /\ calls' = Returned(calls, op)
                 /\ out' = out1
                 /\ IF k = Len(order)
                    THEN /\ planResult' = OkPlan(out1)
                         /\ pc' = "planned"
                         /\ UNCHANGED k
                    ELSE /\ k' = k + 1
                         /\ pc' = "plan_read"
                         /\ UNCHANGED planResult
       \/ \E e \in ResourceError :
             /\ calls' = Returned(calls, Failed(e))
             /\ planResult' = ErrResult(e)
             /\ out' = <<>>
             /\ pc' = "plan_failed"
             /\ UNCHANGED k
    /\ cur' = None
    /\ UNCHANGED <<resources, order, plan, applyResult>>

\* plan of a resource about which nothing is assumed: any Op
PlanReturn == PlanReturnWith(Op)

\* ---------------------------------------------------------------- apply_all
\* line 65: the caller passes the plan plan_all returned
ApplyAllStart ==
    /\ pc = "planned"
    /\ plan' = planResult.plan
    /\ IF planResult.plan = <<>>
       THEN /\ applyResult' = OkUnit
            /\ pc' = "applied"
            /\ UNCHANGED k
       ELSE /\ k' = 1
            /\ pc' = "apply_call"
            /\ UNCHANGED applyResult
    /\ UNCHANGED <<resources, order, cur, out, planResult, calls>>

\* mutant: every pair is applied with the operation of the first pair
ApplyCallFirstOp ==
    /\ pc = "apply_call"
    /\ IF \E i \in 1..Len(resources) : resources[i].id = plan[k].id
       THEN /\ calls' = Append(calls, Call("apply", Find(resources, plan[k].id), plan[1].op))
            /\ pc' = "apply_wait"
       ELSE /\ pc' = "panicked"
            /\ UNCHANGED calls
    /\ UNCHANGED <<resources, order, k, cur, out, planResult, plan, applyResult>>

\* mutant: the plan walked from its last pair to its first
ApplyCallReversed ==
    /\ pc = "apply_call"
    /\ LET e == plan[Len(plan) - k + 1] IN
       IF \E i \in 1..Len(resources) : resources[i].id = e.id
       THEN /\ calls' = Append(calls, Call("apply", Find(resources, e.id), e.op))
            /\ pc' = "apply_wait"
       ELSE /\ pc' = "panicked"
            /\ UNCHANGED calls
    /\ UNCHANGED <<resources, order, k, cur, out, planResult, plan, applyResult>>

\* mutant: a pair whose operation is Noop is skipped without a call
ApplyCallSkipNoop ==
    /\ pc = "apply_call"
    /\ IF plan[k].op = [tag |-> "Noop"]
       THEN /\ IF k = Len(plan)
               THEN /\ applyResult' = OkUnit
                    /\ pc' = "applied"
                    /\ UNCHANGED k
               ELSE /\ k' = k + 1
                    /\ UNCHANGED <<pc, applyResult>>
            /\ UNCHANGED calls
       ELSE /\ IF \E i \in 1..Len(resources) : resources[i].id = plan[k].id
               THEN /\ calls' = Append(calls, Call("apply", Find(resources, plan[k].id), plan[k].op))
                    /\ pc' = "apply_wait"
               ELSE /\ pc' = "panicked"
                    /\ UNCHANGED calls
            /\ UNCHANGED <<k, applyResult>>
    /\ UNCHANGED <<resources, order, cur, out, planResult, plan>>

\* lines 66-68: look the handle up by the pair's id (unwrap panics when there
\* is none) and call apply with the pair's op
ApplyCall ==
    /\ pc = "apply_call"
    /\ IF \E i \in 1..Len(resources) : resources[i].id = plan[k].id
       THEN /\ calls' = Append(calls, Call("apply", Find(resources, plan[k].id), plan[k].op))
            /\ pc' = "apply_wait"
       ELSE /\ pc' = "panicked"
            /\ UNCHANGED calls
    /\ UNCHANGED <<resources, order, k, cur, out, planResult, plan, applyResult>>

\* mutant: a failed apply is remembered but the loop goes on to the next pair
ApplyReturnContinue ==
    /\ pc = "apply_wait"
    /\ \/ /\ calls' = Returned(calls, Unit)
          /\ IF k = Len(plan)
             THEN /\ applyResult' = OkUnit
                  /\ pc' = "applied"
                  /\ UNCHANGED k
             ELSE /\ k' = k + 1
                  /\ pc' = "apply_call"
                  /\ UNCHANGED applyResult
       \/ \E e \in ResourceError :
             /\ calls' = Returned(calls, Failed(e))
             /\ applyResult' = ErrResult(e)
             /\ IF k = Len(plan)
                THEN /\ pc' = "apply_failed"
                     /\ UNCHANGED k
                ELSE /\ k' = k + 1
                     /\ pc' = "apply_call"
    /\ UNCHANGED <<resources, order, cur, out, planResult, plan>>

\* lines 68-70: apply().await? returns Ok(()) or the failure, which `?`
\* returns; after the last pair apply_all returns Ok(())
ApplyReturn ==
    /\ pc = "apply_wait"
    /\ \/ /\ calls' = Returned(calls, Unit)
          /\ IF k = Len(plan)
             THEN /\ applyResult' = OkUnit
                  /\ pc' = "applied"
                  /\ UNCHANGED k
             ELSE /\ k' = k + 1
                  /\ pc' = "apply_call"
                  /\ UNCHANGED applyResult
       \/ \E e \in ResourceError :
             /\ calls' = Returned(calls, Failed(e))
             /\ applyResult' = ErrResult(e)
             /\ pc' = "apply_failed"
             /\ UNCHANGED k
    /\ UNCHANGED <<resources, order, cur, out, planResult, plan>>

\* ---------------------------------------------------------------- resources under contract
\* The repository implements no Resource.  Where a claim speaks of what
\* read, plan and apply do, the handles follow the contract the
\* specification gives them: a handle has a desired state, its entity an
\* observed state; read returns the observed state, plan classifies it
\* against the desired state, a successful apply carries the operation out.
ObservedDoc == Current \cup Desired

ContractResource == [id : ResourceId, deps : SUBSET ResourceId,
                     desired : Desired \cup {None}, observed : ObservedDoc \cup {None}]

\* the classification of an observed state against a desired state
Classify(obs, des) ==
    IF obs = None
    THEN IF des = None THEN [tag |-> "Noop"] ELSE [tag |-> "Create", to |-> des]
    ELSE IF des = None THEN [tag |-> "Delete", from |-> obs]
    ELSE IF obs = des THEN [tag |-> "Noop"]
    ELSE [tag |-> "Update", from |-> obs, to |-> des]

\* the observed state an applied operation leaves behind
Effect(op, w) ==
    CASE op.tag = "Create" -> op.to
      [] op.tag = "Update" -> op.to
      [] op.tag = "Delete" -> None
      [] OTHER             -> w

\* the observed state of handle h's entity after the first n calls: nothing
\* but the applied operations changes it
RECURSIVE ObservedAfter(_, _)
ObservedAfter(h, n) ==
    IF n = 0 THEN resources[h].observed
    ELSE LET w == ObservedAfter(h, n - 1)
             c == calls[n]
         IN  IF c.fn = "apply" /\ c.h = h /\ c.ret = Unit THEN Effect(c.arg, w) ELSE w

ContractInit ==
    /\ \E n \in 0..MaxRes :
          /\ resources \in [1..n -> ContractResource]
          /\ \A i \in 1..n : resources[i].id = i
                             /\ Cardinality(resources[i].deps) <= MaxDeclared
    /\ pc = "idle"
    /\ order = <<>>
    /\ k = 0
    /\ cur = None
    /\ out = <<>>
    /\ planResult = NoResult
    /\ plan = <<>>
    /\ applyResult = NoResult
    /\ calls = <<>>

\* read returns the entity's observed state, or fails
ContractReadReturn == ReadReturnWith({ObservedAfter(Last(calls).h, Len(calls))})

\* plan classifies the state it is given against the handle's desired state,
\* or fails
ContractPlanReturn ==
    PlanReturnWith({Classify(Last(calls).arg.v, resources[Last(calls).h].desired)})

\* after a successful apply the caller computes a fresh plan over the same
\* collection, once
Replan ==
    /\ pc = "applied"
    /\ \A i, j \in 1..Len(calls) : (i < j /\ calls[i].fn = "apply") => calls[j].fn = "apply"
    /\ pc' = "idle"
    /\ order' = <<>>
    /\ k' = 0
    /\ out' = <<>>
    /\ planResult' = NoResult
    /\ plan' = <<>>
    /\ applyResult' = NoResult
    /\ UNCHANGED <<resources, cur, calls>>

ContractNext ==
    \/ PlanAllStart
    \/ ReadCall
    \/ ContractReadReturn
    \/ PlanCall
    \/ ContractPlanReturn
    \/ ApplyAllStart
    \/ ApplyCall
    \/ ApplyReturn
    \/ Replan

ContractSpec == ContractInit /\ [][ContractNext]_vars

\* ------------------------------------------------ apply_all on any plan
\* line 65: apply_all takes any slice of (ResourceId, Op) pairs
SuppliedPlans == UNION {[1..n -> [id : ResourceId, op : Op]] : n \in 0..MaxPlan}

SuppliedInit ==
    /\ \E n \in 0..MaxRes :
          /\ resources \in [1..n -> Resource]
          /\ UniqueIds(resources)
          /\ \A i \in 1..n : Cardinality(resources[i].deps) <= MaxDeclared
    /\ pc = "idle"
    /\ order = <<>>
    /\ k = 0
    /\ cur = None
    /\ out = <<>>
    /\ planResult = NoResult
    /\ plan = <<>>
    /\ applyResult = NoResult
    /\ calls = <<>>

\* mutant: the plan is validated first; a pair with no handle aborts the run
\* before any pair is applied
ApplyAllValidated ==
    /\ pc = "idle"
    /\ \E p \in SuppliedPlans :
          LET bad == {j \in 1..Len(p) : \A i \in 1..Len(resources) : resources[i].id # p[j].id}
          IN  /\ plan' = p
              /\ IF bad # {}
                 THEN /\ k' = SetMin(bad)
                      /\ pc' = "panicked"
                      /\ UNCHANGED applyResult
                 ELSE IF p = <<>>
                 THEN /\ applyResult' = OkUnit
                      /\ pc' = "applied"
                      /\ UNCHANGED k
                 ELSE /\ k' = 1
                      /\ pc' = "apply_call"
                      /\ UNCHANGED applyResult
    /\ UNCHANGED <<resources, order, cur, out, planResult, calls>>

\* line 65: the caller passes a plan of its own
ApplyAllSupplied ==
    /\ pc = "idle"
    /\ \E p \in SuppliedPlans :
          /\ plan' = p
          /\ IF p = <<>>
             THEN /\ applyResult' = OkUnit
                  /\ pc' = "applied"
                  /\ UNCHANGED k
             ELSE /\ k' = 1
                  /\ pc' = "apply_call"
                  /\ UNCHANGED applyResult
    /\ UNCHANGED <<resources, order, cur, out, planResult, calls>>

SuppliedNext == ApplyAllSupplied \/ ApplyCall \/ ApplyReturn

SuppliedSpec == SuppliedInit /\ [][SuppliedNext]_vars

\* lines 34-71: the caller either runs plan_all and applies its plan, or
\* applies a plan of its own
EitherNext == PlanAllStart \/ ReadCall \/ ReadReturn \/ PlanCall \/ PlanReturn
              \/ ApplyAllStart \/ ApplyAllSupplied \/ ApplyCall \/ ApplyReturn

EitherSpec == SuppliedInit /\ [][EitherNext]_vars

\* ------------------------------------------------ collections with shared ids
\* line 34: the slice may hold several handles with one identifier
SharedInit ==
    /\ \E n \in 0..MaxRes :
          /\ resources \in [1..n -> Resource]
          /\ \A i \in 1..n : Cardinality(resources[i].deps) <= MaxDeclared
    /\ pc = "idle"
    /\ order = <<>>
    /\ k = 0
    /\ cur = None
    /\ out = <<>>
    /\ planResult = NoResult
    /\ plan = <<>>
    /\ applyResult = NoResult
    /\ calls = <<>>

Next ==
    \/ PlanAllStart
    \/ ReadCall
    \/ ReadReturn
    \/ PlanCall
    \/ PlanReturn
    \/ ApplyAllStart
    \/ ApplyCall
    \/ ApplyReturn

Spec == Init /\ [][Next]_vars

SharedSpec == SharedInit /\ [][Next]_vars

\* ---------------------------------------------------------------- vocabulary of the claims
\* the identifiers present in the collection
Known(rs) == {rs[i].id : i \in 1..Len(rs)}

\* the known-only dependency set of handle i
KnownDeps(rs, i) == rs[i].deps \cap Known(rs)

DistinctIds(rs) == \A i, j \in 1..Len(rs) : rs[i].id = rs[j].id => i = j

\* x depends on y: some handle named x declares y, and y is present
DependsOn(rs, x, y) == \E i \in 1..Len(rs) : rs[i].id = x /\ y \in KnownDeps(rs, i)

\* a cycle: a non-empty set of identifiers each with a dependency inside the set
HasCycle(rs) == \E S \in SUBSET Known(rs) :
                   /\ S # {}
                   /\ \A x \in S : \E y \in S : DependsOn(rs, x, y)

\* the collection with every unknown dependency identifier removed
Strip(rs) == [i \in 1..Len(rs) |-> [id |-> rs[i].id, deps |-> KnownDeps(rs, i)]]

\* the identifiers of a sequence of node indexes / of a plan
OrderIds(rs, ord) == [p \in 1..Len(ord) |-> rs[ord[p]].id]

PlanIds(pl) == [p \in 1..Len(pl) |-> pl[p].id]

\* every resource occurs in ids, after all of its known dependencies
RespectsDeps(rs, ids) ==
    \A i \in 1..Len(rs) : \E p \in 1..Len(ids) :
        /\ ids[p] = rs[i].id
        /\ \A d \in KnownDeps(rs, i) : \E q \in 1..(p - 1) : ids[q] = d

CycleError == planResult.tag = "Err" /\ planResult.e = Cycle

\* C1: for distinct identifiers and an acyclic known-only dependency
\* relation, scheduling does not fail, and in the scheduled order and in
\* the plan plan_all returns every resource comes after all of its known
\* dependencies.
C1_DepsFirst ==
    (pc # "idle" /\ DistinctIds(resources) /\ ~HasCycle(resources)) =>
        /\ ~CycleError
        /\ RespectsDeps(resources, OrderIds(resources, order))
        /\ planResult.tag = "Ok" => RespectsDeps(resources, PlanIds(planResult.plan))

\* the chain C -> B -> A given in the order C, B, A is planned A, B, C
C1_Witness ==
    /\ planResult.tag = "Ok"
    /\ resources = <<[id |-> 3, deps |-> {2}], [id |-> 2, deps |-> {1}], [id |-> 1, deps |-> {}]>>
    /\ PlanIds(planResult.plan) = <<1, 2, 3>>

\* C2: when the known-only dependency relation has a cycle (a self
\* dependency included), plan_all fails with EngineError::Cycle and yields
\* no order and no plan, also for the resources off the cycle.
C2_CycleFails ==
    (pc # "idle" /\ HasCycle(resources)) =>
        /\ pc = "plan_failed"
        /\ planResult = ErrResult(Cycle)
        /\ order = <<>>
        /\ out = <<>>

\* a two-resource cycle next to a resource that is not on it
C2_Witness ==
    /\ pc = "plan_failed"
    /\ CycleError
    /\ Len(resources) = 3
    /\ DistinctIds(resources)
    /\ \E i \in 1..3 : KnownDeps(resources, i) = {}
                       /\ \A j \in 1..3 : resources[i].id \notin resources[j].deps
    /\ \E i, j \in 1..3 : i # j /\ resources[j].id \in resources[i].deps
                                /\ resources[i].id \in resources[j].deps

\* C3: the cycle error comes before any resource is touched: when plan_all
\* has failed with it, and in every run over a cyclic collection, no read,
\* plan or apply call has been made.
C3_CycleBeforeTouch ==
    /\ CycleError => calls = <<>>
    /\ HasCycle(resources) => calls = <<>>

\* a self dependency: the run has failed and nothing was called
C3_Witness ==
    /\ CycleError
    /\ \E i \in 1..Len(resources) : resources[i].id \in resources[i].deps
    /\ calls = <<>>

\* C4: an unknown dependency identifier is dropped: the run fails with the
\* cycle error only if the known-only relation has a cycle, the scheduled
\* order is the one of the collection without the unknown identifiers, and
\* a returned plan has one pair per resource, in that order.
C4_UnknownDropped ==
    pc # "idle" =>
        LET r == toposort(BuildGraph(Strip(resources))) IN
        /\ CycleError => HasCycle(resources)
        /\ CycleError <=> ~r.ok
        /\ r.ok => order = r.order
        /\ planResult.tag = "Ok" =>
              /\ Len(planResult.plan) = Len(resources)
              /\ PlanIds(planResult.plan) = OrderIds(resources, r.order)
              /\ Known(resources) = Range(PlanIds(planResult.plan))

\* a dependent resource that also declares an identifier nobody carries
C4_Witness ==
    /\ planResult.tag = "Ok"
    /\ Len(resources) >= 2
    /\ \E i \in 1..Len(resources) :
          /\ resources[i].deps \ Known(resources) # {}
          /\ KnownDeps(resources, i) # {}

\* the order obtained by repeatedly scheduling, among the resources whose
\* known dependencies are all scheduled, the first one of the input
RECURSIVE GreedyFrom(_, _)
GreedyFrom(rs, done) ==
    LET ready == {i \in 1..Len(rs) \ Range(done) :
                     KnownDeps(rs, i) \subseteq {rs[j].id : j \in Range(done)}}
    IN  IF ready = {} THEN done ELSE GreedyFrom(rs, Append(done, SetMin(ready)))

GreedyOrder(rs) == GreedyFrom(rs, <<>>)

\* the input lists every resource after all of its known dependencies
InputOrdered(rs) ==
    \A i \in 1..Len(rs) : \A d \in KnownDeps(rs, i) : \E j \in 1..(i - 1) : rs[j].id = d

InputOrder(rs) == [i \in 1..Len(rs) |-> i]

\* B and C both depend only on D; input order B, C, D
TieExample == <<[id |-> 1, deps |-> {3}], [id |-> 2, deps |-> {3}], [id |-> 3, deps |-> {}]>>

CallsOf(fn) == SelectSeq(calls, LAMBDA c : c.fn = fn)

\* C6: planning is fail-fast and atomic: a failed read or plan call is the
\* last call ever made, plan_all has returned exactly that failure and no
\* plan, and nothing was called on the resources later in the order.
C6_PlanFailFast ==
    /\ \A i \in 1..Len(calls) :
          (calls[i].fn \in {"read", "plan"} /\ calls[i].ret.tag = "err") =>
              /\ i = Len(calls)
              /\ pc = "plan_failed"
              /\ planResult = ErrResult(calls[i].ret.e)
              /\ Len(calls) \in {2 * k - 1, 2 * k}
              /\ \A j \in 1..Len(calls) :
                    resources[calls[j].h].id \in {resources[order[q]].id : q \in 1..k}
    /\ (pc = "plan_failed" /\ ~CycleError) =>
          /\ calls # <<>>
          /\ Last(calls).ret.tag = "err"
          /\ planResult.tag = "Err"

\* the second resource's plan call failed after the first was read and planned
C6_Witness ==
    /\ pc = "plan_failed"
    /\ Len(resources) = 3
    /\ Len(calls) = 4
    /\ calls[4].fn = "plan"
    /\ calls[4].ret = Failed("e2")
    /\ planResult = ErrResult("e2")

\* C7: apply_all applies in plan order: its j-th apply call is on the
\* resource named by the j-th pair, with that pair's operation, and every
\* apply call before the latest one has returned successfully.
C7_ApplyInPlanOrder ==
    LET a == CallsOf("apply") IN
    /\ Len(a) <= Len(plan)
    /\ \A j \in 1..Len(a) :
          /\ resources[a[j].h].id = plan[j].id
          /\ a[j].arg = plan[j].op
          /\ j < Len(a) => a[j].ret = Unit
    /\ pc = "applied" => Len(a) = Len(plan)

\* three pairs with differing operations, all applied
C7_Witness ==
    /\ pc = "applied"
    /\ Len(plan) = 3
    /\ plan[1].op.tag = "Create"
    /\ plan[2].op.tag = "Delete"
    /\ plan[3].op.tag = "Noop"
    /\ Len(CallsOf("apply")) = 3

\* C8: when plan_all's plan is applied, an apply call on a resource starts
\* only after the apply call of each of its known dependencies has returned
\* successfully.
C8_DepsAppliedFirst ==
    DistinctIds(resources) =>
        \A j \in 1..Len(calls) :
            calls[j].fn = "apply" =>
                \A d \in KnownDeps(resources, calls[j].h) :
                    \E q \in 1..(j - 1) :
                        /\ calls[q].fn = "apply"
                        /\ resources[calls[q].h].id = d
                        /\ calls[q].ret = Unit

\* the apply of a resource with two known dependencies is in flight
C8_Witness ==
    /\ pc = "apply_wait"
    /\ Cardinality(KnownDeps(resources, Last(calls).h)) = 2
    /\ Last(calls).ret = Pending

\* C9: a failed apply call is the last call of any kind: apply_all has
\* returned a failure, the remaining pairs were never applied, and nothing
\* was called on the resources already applied.
C9_ApplyStops ==
    /\ \A i \in 1..Len(calls) :
          (calls[i].fn = "apply" /\ calls[i].ret.tag = "err") =>
              /\ i = Len(calls)
              /\ pc = "apply_failed"
              /\ applyResult.tag = "Err"
              /\ Len(CallsOf("apply")) = k
    /\ pc = "apply_failed" =>
          /\ calls # <<>>
          /\ Last(calls).fn = "apply"
          /\ Last(calls).ret.tag = "err"

\* X depends on Y, Y's apply failed first: X's apply was never invoked
C9_Witness ==
    /\ pc = "apply_failed"
    /\ Len(resources) = 2
    /\ resources[1].deps = {resources[2].id}
    /\ Len(CallsOf("apply")) = 1
    /\ Last(calls).h = 2
    /\ Len(plan) = 2

\* C10: the failure apply_all returns names the resource whose apply failed,
\* carries that resource's failure, and lists the resources applied before.
C10_FailureIdentifies ==
    pc = "apply_failed" =>
        /\ applyResult.tag = "Err"
        /\ applyResult.e = Last(calls).ret.e
        /\ \E c \in Range(applyResult.context) :
              /\ c.failed = plan[k].id
              /\ c.completed = [j \in 1..(k - 1) |-> plan[j].id]

\* a call that has returned without a failure
ReturnedOk(c) == c.ret.tag \notin {"pending", "err"}

\* the read and plan calls, in the order they were made
PlanPhaseCalls == SelectSeq(calls, LAMBDA c : c.fn \in {"read", "plan"})

\* the calls of one operation on one handle
CallsOn(fn, h) == SelectSeq(calls, LAMBDA c : c.fn = fn /\ c.h = h)

\* C13: a plan returned by plan_all has exactly one pair per resource of the
\* collection and no other pair, and the operation of a pair is the one the
\* plan call on that resource returned.
C13_OnePairPerResource ==
    planResult.tag = "Ok" =>
        LET pl == planResult.plan IN
        /\ Len(pl) = Len(resources)
        /\ \A i \in 1..Len(resources) :
              Cardinality({p \in 1..Len(pl) : pl[p].id = resources[i].id}) = 1
        /\ \A p \in 1..Len(pl) :
              /\ pl[p].id \in Known(resources)
              /\ \E c \in 1..Len(calls) :
                    calls[c].fn = "plan" /\ resources[calls[c].h].id = pl[p].id
              /\ \A c \in 1..Len(calls) :
                    (calls[c].fn = "plan" /\ resources[calls[c].h].id = pl[p].id) =>
                        calls[c].ret = pl[p].op

\* three resources planned with three different operations, a no-op among them
C13_Witness ==
    /\ pc = "planned"
    /\ Len(resources) = 3
    /\ {planResult.plan[p].op.tag : p \in 1..3} = {"Noop", "Update", "Delete"}

\* C14: planning follows the per-resource protocol in scheduled order: read,
\* then plan on the same resource with exactly the value read returned, each
\* returned before the next call starts; so a resource is read only after
\* the plan call of each of its known dependencies has returned.
C14_ReadThenPlan ==
    LET p == PlanPhaseCalls IN
    \A i \in 1..Len(p) :
        /\ i < Len(p) => ReturnedOk(p[i])
        /\ i % 2 = 1 =>
              /\ p[i].fn = "read"
              /\ p[i].arg = Unit
              /\ resources[p[i].h].id = resources[order[(i + 1) \div 2]].id
              /\ \A d \in KnownDeps(resources, p[i].h) :
                    \E q \in 1..(i - 1) :
                        /\ p[q].fn = "plan"
                        /\ resources[p[q].h].id = d
                        /\ ReturnedOk(p[q])
        /\ i % 2 = 0 =>
              /\ p[i].fn = "plan"
              /\ p[i].h = p[i - 1].h
              /\ p[i - 1].ret.tag = "opt"
              /\ p[i].arg = p[i - 1].ret

\* the plan call of a resource with a known dependency is in flight, with
\* the observed state its read returned
C14_Witness ==
    /\ pc = "plan_plan_wait"
    /\ Len(calls) = 4
    /\ KnownDeps(resources, calls[4].h) # {}
    /\ calls[3].ret = Opt("c1")
    /\ calls[4].arg = Opt("c1")

\* C18: nothing is retried and no failure is swallowed: read and plan are
\* called at most once per resource, apply at most once per plan pair, and
\* when a call has failed the enclosing plan_all or apply_all has returned
\* a failure, never success.
C18_NoRetryNoSwallow ==
    /\ \A h \in 1..Len(resources) :
          /\ Len(CallsOn("read", h)) <= 1
          /\ Len(CallsOn("plan", h)) <= 1
          /\ Len(CallsOn("apply", h)) <= 1
    /\ Len(CallsOf("apply")) <= Len(plan)
    /\ \A i \in 1..Len(calls) :
          calls[i].ret.tag = "err" =>
              /\ calls[i].fn \in {"read", "plan"} => planResult.tag = "Err"
              /\ calls[i].fn = "apply" => applyResult.tag = "Err"
    /\ planResult.tag = "Ok" => \A i \in 1..Len(PlanPhaseCalls) : ReturnedOk(PlanPhaseCalls[i])
    /\ applyResult.tag = "Ok" => \A i \in 1..Len(calls) : ReturnedOk(calls[i])

\* the third resource's read failed: it was read once and plan_all failed
C18_Witness ==
    /\ pc = "plan_failed"
    /\ Len(calls) = 5
    /\ calls[5].fn = "read"
    /\ calls[5].ret = Failed("e1")
    /\ Len(CallsOn("read", calls[5].h)) = 1

\* C19: resources are processed one at a time: at most one read, plan or
\* apply call is in flight, it is the latest call, and the run waits for it.
C19_OneAtATime ==
    /\ \A i \in 1..(Len(calls) - 1) : calls[i].ret # Pending
    /\ (calls # <<>> /\ Last(calls).ret = Pending) <=>
          pc \in {"plan_read_wait", "plan_plan_wait", "apply_wait"}

\* the second apply call is in flight, everything before it has returned
C19_Witness ==
    /\ pc = "apply_wait"
    /\ Len(CallsOf("apply")) = 2
    /\ Len(calls) = 8
    /\ Last(calls).ret = Pending

\* the apply calls made so far are the first ones of the plan, all returned Ok
AppliedPrefix(n) ==
    LET a == CallsOf("apply") IN
    /\ Len(a) >= n
    /\ \A j \in 1..n : resources[a[j].h].id = plan[j].id /\ a[j].ret = Unit

\* planning aborted: no plan exists and apply was never invoked
Aborted ==
    /\ pc = "plan_failed"
    /\ planResult.tag = "Err"
    /\ plan = <<>>
    /\ applyResult = NoResult
    /\ CallsOf("apply") = <<>>

\* Applied: the plan has a pair for every resource, each applied successfully
Applied ==
    /\ pc = "applied"
    /\ planResult.tag = "Ok"
    /\ plan = planResult.plan
    /\ Len(plan) = Len(resources)
    /\ applyResult = OkUnit
    /\ AppliedPrefix(Len(plan))
    /\ Len(CallsOf("apply")) = Len(plan)
    /\ \A i \in 1..Len(calls) : ReturnedOk(calls[i])

\* Failed at index i: the pairs before i applied, pair i failed, none after
FailedAt(i) ==
    /\ pc = "apply_failed"
    /\ planResult.tag = "Ok"
    /\ plan = planResult.plan
    /\ applyResult.tag = "Err"
    /\ AppliedPrefix(i - 1)
    /\ Len(CallsOf("apply")) = i
    /\ Last(calls).fn = "apply"
    /\ resources[Last(calls).h].id = plan[i].id
    /\ Last(calls).ret = Failed(applyResult.e)
    /\ Len(calls) = 2 * Len(plan) + i

Terminal == pc \in {"plan_failed", "applied", "apply_failed"}

\* how far the run has come: every step of plan_all and apply_all adds to it
Progress ==
    LET n == Len(resources) IN
    CASE pc = "idle"           -> 0
      [] pc = "plan_read"      -> 4 * k - 3
      [] pc = "plan_read_wait" -> 4 * k - 2
      [] pc = "plan_plan"      -> 4 * k - 1
      [] pc = "plan_plan_wait" -> 4 * k
      [] pc = "planned"        -> 4 * n + 1
      [] pc = "apply_call"     -> 4 * n + 2 * k
      [] pc = "apply_wait"     -> 4 * n + 2 * k + 1
      [] OTHER                 -> 6 * n + 2

\* C20: a run in which every call returns ends: until it has ended a step
\* is always possible (plan_all can always be entered, every later step is
\* enabled) and every step brings it closer to the end; it ends
\* in exactly one of planning aborted, Applied, or Failed at one index i,
\* where it stays, and no plan short of a pair per resource ever exists.
C20_Lifecycle ==
    /\ [](~Terminal =>
            \/ pc = "idle"
            \/ ENABLED (ReadCall \/ ReadReturn \/ PlanCall \/ PlanReturn
                          \/ ApplyAllStart \/ ApplyCall \/ ApplyReturn))
    /\ [][Progress' > Progress]_vars
    /\ [](Progress <= 6 * Len(resources) + 2)
    /\ [](Terminal => ~ENABLED Next)
    /\ [](Terminal => (Aborted \/ Applied \/ \E i \in 1..Len(plan) : FailedAt(i)))
    /\ [](planResult.tag = "Ok" => Len(planResult.plan) = Len(resources))

\* the run failed at the second of three pairs
C20_Witness ==
    /\ Len(plan) = 3
    /\ FailedAt(2)
    /\ ~Aborted
    /\ ~Applied

\* the indexes of the returned read calls on handle h
ReadsOn(h) == {i \in 1..Len(calls) : calls[i].fn = "read" /\ calls[i].h = h
                                      /\ calls[i].ret.tag = "opt"}

\* C11: the operation a returned plan records for a resource classifies the
\* observed state its latest read returned against its desired state: Create
\* when nothing is observed and a state is desired, Delete when a state is
\* observed and none desired, NoOp when the two are equal, Update from the
\* observed to the desired state when both are present and differ.
C11_OpIsClassification ==
    planResult.tag = "Ok" =>
        \A p \in 1..Len(planResult.plan) :
            LET id == planResult.plan[p].id
                op == planResult.plan[p].op
                h  == Find(resources, id)
                des == resources[h].desired
            IN  /\ ReadsOn(h) # {}
                /\ LET obs == calls[SetMax(ReadsOn(h))].ret.v IN
                   /\ (obs = None /\ des # None) => op = [tag |-> "Create", to |-> des]
                   /\ (obs # None /\ des = None) => op = [tag |-> "Delete", from |-> obs]
                   /\ obs = des => op = [tag |-> "Noop"]
                   /\ (obs # None /\ des # None /\ obs # des) =>
                         op = [tag |-> "Update", from |-> obs, to |-> des]

\* a first plan that holds a Create, an Update and a Delete, out of input order
C11_Witness ==
    /\ pc = "planned"
    /\ CallsOf("apply") = <<>>
    /\ Len(resources) = 3
    /\ PlanIds(planResult.plan) # <<1, 2, 3>>
    /\ {planResult.plan[p].op.tag : p \in 1..3} = {"Create", "Update", "Delete"}

\* C12: a fresh plan computed after a successful apply_all of the previous
\* plan, with no outside change, is NoOp for every resource.
C12_Idempotent ==
    (planResult.tag = "Ok" /\ CallsOf("apply") # <<>> /\ pc = "planned") =>
        /\ Len(planResult.plan) = Len(resources)
        /\ \A p \in 1..Len(planResult.plan) : planResult.plan[p].op = [tag |-> "Noop"]

\* the second plan, after a Create, an Update and a Delete were applied
C12_Witness ==
    /\ pc = "planned"
    /\ Len(resources) = 3
    /\ {c.arg.tag : c \in Range(CallsOf("apply"))} = {"Create", "Update", "Delete"}
    /\ \A p \in 1..3 : planResult.plan[p].op = [tag |-> "Noop"]

\* the case a returned plan call stood in: the state of the entity when the
\* call was made, and whether the handle has a desired state
CaseOf(i) ==
    LET obs == ObservedAfter(calls[i].h, i)
        des == resources[calls[i].h].desired
    IN  IF obs = None /\ des = None THEN "no-state"
        ELSE IF des = None THEN "observed-only"
        ELSE IF obs = None THEN "desired-only"
        ELSE IF obs = des THEN "match"
        ELSE "differ"

PlanAnswers == {i \in 1..Len(calls) : calls[i].fn = "plan" /\ ReturnedOk(calls[i])}

C17_TrustsPlan ==
    /\ [](/\ \A j \in 1..Len(calls) :
                /\ calls[j].fn = "apply"
                /\ j <= Len(plan)
                /\ calls[j].h = Find(resources, plan[j].id)
                /\ calls[j].arg = plan[j].op
          /\ pc \in {"apply_call", "panicked"} => Len(calls) = k - 1
          /\ pc \in {"apply_wait", "apply_failed"} => Len(calls) = k
          /\ pc = "applied" => Len(calls) = Len(plan))
    /\ [][pc # "idle" => plan' = plan]_vars

\* a plan applied to the end although its first pair's resource declares a
\* dependency on its second pair's, whose operation is Noop
C17_Witness ==
    /\ pc = "applied"
    /\ planResult = NoResult
    /\ Len(plan) = 2
    /\ plan[2].id \in resources[Find(resources, plan[1].id)].deps
    /\ plan[2].op = [tag |-> "Noop"]
    /\ Len(calls) = 2

\* the positions of a run of plan_all, from its call to its return
Planning == {"idle", "plan_read", "plan_read_wait", "plan_plan", "plan_plan_wait",
             "planned", "plan_failed"}

\* C21: plan_all never invokes apply: up to and at its return, whether with a
\* plan, with the cycle error or with a read or plan failure, every resource
\* call made is a read or a plan, and no step of plan_all adds an apply call.
C21_PlanNeverApplies ==
    /\ [](pc \in Planning => \A i \in 1..Len(calls) : calls[i].fn \in {"read", "plan"})
    /\ [][(pc \in Planning \ {"planned"}) => CallsOf("apply")' = CallsOf("apply")]_vars

\* plan_all failed on the plan call of its second resource after two reads
C21_Witness ==
    /\ pc = "plan_failed"
    /\ planResult.tag = "Err"
    /\ planResult.e \in ResourceError
    /\ Len(calls) = 4
    /\ calls[4].fn = "plan"

\* the handles of the collection that carry identifier x
HandlesOf(x) == {i \in 1..Len(resources) : resources[i].id = x}

\* how many calls of fn were made on handle h
TimesCalled(fn, h) == Cardinality({i \in 1..Len(calls) : calls[i].fn = fn /\ calls[i].h = h})

\* C22: when handles share an identifier, every read, plan and apply is made
\* on the first handle in input order that carries the identifier, never on a
\* later one; a returned plan has one entry per handle, so the identifier
\* appears as often as handles carry it, and the first handle is read and
\* planned once per entry and, in a completed apply_all, applied once per entry.
C22_FirstHandleServes ==
    /\ \A i \in 1..Len(calls) : calls[i].h = SetMin(HandlesOf(resources[calls[i].h].id))
    /\ planResult.tag = "Ok" =>
          /\ Len(planResult.plan) = Len(resources)
          /\ \A x \in Known(resources) :
                LET first == SetMin(HandlesOf(x))
                    n     == Cardinality(HandlesOf(x))
                IN  /\ Cardinality({p \in 1..Len(resources) : planResult.plan[p].id = x}) = n
                    /\ TimesCalled("read", first) = n
                    /\ TimesCalled("plan", first) = n
                    /\ pc = "applied" => TimesCalled("apply", first) = n

\* three handles, the first two with one identifier: the plan was applied
\* with two applies on the first handle and none on the second
C22_Witness ==
    /\ pc = "applied"
    /\ Len(resources) = 3
    /\ resources[1].id = resources[2].id
    /\ resources[3].id # resources[1].id
    /\ TimesCalled("apply", 1) = 2
    /\ TimesCalled("read", 2) = 0

\* C23: apply_all does not validate the plan first. A plan plan_all returned
\* names only identifiers of the collection and never makes apply_all panic;
\* when the k-th pair of a supplied plan names an identifier the collection
\* lacks, the run aborts at k by a panic with no result value, the pairs before
\* k have each been applied, in order and successfully, no pair from k on has
\* been applied, and nothing runs after the panic.
C23_NoValidation ==
    /\ [](/\ planResult.tag = "Ok" =>
                /\ \A p \in 1..Len(planResult.plan) :
                      planResult.plan[p].id \in Known(resources)
                /\ pc # "panicked"
          /\ pc = "panicked" =>
                /\ k \in 1..Len(plan)
                /\ plan[k].id \notin Known(resources)
                /\ applyResult = NoResult
                /\ Len(calls) = k - 1
                /\ \A j \in 1..(k - 1) :
                      /\ plan[j].id \in Known(resources)
                      /\ calls[j] = [Call("apply", Find(resources, plan[j].id), plan[j].op)
                                       EXCEPT !.ret = Unit])
    /\ [][pc # "panicked"]_vars

\* a supplied plan of two pairs whose second identifier has no handle: the
\* first pair was applied before the panic
C23_Witness ==
    /\ pc = "panicked"
    /\ k = 2
    /\ Len(plan) = 2
    /\ Len(calls) = 1
    /\ calls[1].fn = "apply"
    /\ calls[1].ret = Unit

====
